---- MODULE Spec2Model ----
(***************************************************************************)
(* Model of the scan engine of feroxbuster (src/scanner.rs): scan_url, the *)
(* request workers (make_requests), the recursion dispatcher and the two   *)
(* report sinks, with the channels that connect them.                      *)
(*                                                                         *)
(* A channel is its queue plus the set of live sender handles; it is       *)
(* closed (sender side) when no sender handle is left.  The coordinator    *)
(* holds one handle of each channel of its scan and every spawned worker   *)
(* holds a clone of both until its task ends.                              *)
(***************************************************************************)
EXTENDS Integers, Sequences, FiniteSets, TLC

\* ------------------------------------------------------------------ bounds
MaxScans == 3

Scans == 1..MaxScans
Root == 1

\* "[" is a word and "]" an extension no url can be made of; "//" is a
\* word that makes a url only with an extension after it
Words == {"a", "b", "[", "//"}
Exts == {"js", "php", "]"}

\* longest list of extensions given to the expander alone
MaxExts == 2

\* length in characters of a word and of an extension
WordLen(w) == IF w \in {"a", "b", "r"} THEN 1 ELSE 2
ExtLen(e) == IF e = "" THEN 0 ELSE 2

\* ------------------------------------------------------------------- urls
\* A url is its path: the named segments and whether it ends with '/'.
\* A segment is <<word, extension>> ("" for no extension).
Seg(w, e) == <<w, e>>
MkUrl(segs, slash) == [segs |-> segs, slash |-> slash]

HomeUrl == MkUrl(<<>>, TRUE)
RootUrl == MkUrl(<<Seg("r", "")>>, FALSE)
RootDir == MkUrl(<<Seg("r", "")>>, TRUE)
DeepDir == MkUrl(<<Seg("r", ""), Seg("a", ""), Seg("a", ""), Seg("a", "")>>, TRUE)

\* utils::get_current_depth: the number of path segments of the url
get_current_depth(url) == Len(url.segs)

RECURSIVE SegsLen(_)
SegsLen(segs) ==
    IF segs = <<>> THEN 0
    ELSE LET s == Head(segs)
         IN 1 + WordLen(s[1]) + (IF s[2] = "" THEN 0 ELSE 1 + ExtLen(s[2]))
              + SegsLen(Tail(segs))

\* utils::get_url_path_length: characters of the path, a trailing slash
\* excluded ("/a/" has length 2, like "/a")
get_url_path_length(url) == SegsLen(url.segs)

\* the concatenations that do not parse as a url
Malformed(word, ext) ==
    \/ word = "["
    \/ ext = "]"
    \/ word = "//" /\ ext = ""

\* utils::format_url: target + word (+ "." + ext) (+ "/" with addslash);
\* <<>> is Err, a one-element sequence is Ok(url)
format_url(target_url, word, addslash, ext) ==
    IF Malformed(word, ext) THEN <<>>
    ELSE <<MkUrl(Append(target_url.segs, Seg(word, ext)), addslash)>>

\* create_urls: the extension-less url first, then one url per extension in
\* the order given; a candidate that does not parse is left out
RECURSIVE ExtUrls(_, _, _, _)
ExtUrls(target_url, word, addslash, extensions) ==
    IF extensions = <<>> THEN <<>>
    ELSE format_url(target_url, word, addslash, Head(extensions))
           \o ExtUrls(target_url, word, addslash, Tail(extensions))

\* mutant of create_urls: nothing is returned unless every candidate parses
create_urls_all_or_nothing(target_url, word, addslash, extensions) ==
    LET all == format_url(target_url, word, addslash, "")
                 \o ExtUrls(target_url, word, addslash, extensions)
    IN IF Len(all) = 1 + Len(extensions) THEN all ELSE <<>>

\* mutant of create_urls: the urls with an extension come first
create_urls_extensions_first(target_url, word, addslash, extensions) ==
    ExtUrls(target_url, word, addslash, extensions)
      \o format_url(target_url, word, addslash, "")

create_urls(target_url, word, addslash, extensions) ==
    format_url(target_url, word, addslash, "")
      \o ExtUrls(target_url, word, addslash, extensions)

\* -------------------------------------------------------------- responses
NoLen == -1
Statuses == {200, 301, 404}

is_redirection(status) == status >= 300 /\ status < 400
is_success(status) == status >= 200 /\ status < 300

\* Response::content_length().unwrap_or(0)
content_length(resp) == IF resp.len = NoLen THEN 0 ELSE resp.len

\* format!("{}/", response.url()): the url string with one '/' appended; a
\* url that already ends with '/' gives a string with "//", which is no url
\* of the model (<<>>)
UrlPlusSlash(url) == IF url.slash THEN <<>> ELSE <<[url EXCEPT !.slash = TRUE]>>

\* response_is_directory: 3xx with a Location that resolves to url + "/",
\* or 2xx with a url that ends with '/'
response_is_directory(resp) ==
    IF is_redirection(resp.status)
    THEN IF resp.loc = <<>> THEN FALSE ELSE UrlPlusSlash(resp.url) = resp.loc
    ELSE IF is_success(resp.status) THEN resp.url.slash
    ELSE FALSE

\* usize arithmetic: the width is scaled down to 30 bits
UsizeModulus == 1073741824
UsizeSub(a, b) == (a - b + UsizeModulus) % UsizeModulus
UsizeSubOverflows(a, b) == a < b

\* ------------------------------------------------------------------ state
VARIABLES
    cfg,             \* CONFIGURATION: the options, fixed at process start
    overflow_checks, \* build profile: TRUE when integer overflow panics
    wordlist,        \* the shared wordlist
    server,          \* what the server under scan can answer
    pc,              \* per scan: the coordinator's position in scan_url
    target,          \* per scan: target_url
    base,            \* per scan: base_depth
    wildcard,        \* per scan: what heuristics::wildcard_test returned
    filter,          \* per scan: the WildcardFilter the workers are given
    tx_dir,          \* per scan: the coordinator still holds tx_dir
    tx_rpt,          \* per scan: the coordinator still holds tx_rpt
    wst,             \* per scan and word: the worker task's state
    widx,            \* per scan and word: index of the worker's next url
    rx_dir,          \* per scan: the recursion channel's queue
    rx_rpt,          \* per scan: the report channel's queue
    recurser,        \* per scan: the recursion dispatcher task's state
    scans,           \* per scan: the dispatcher's vector of child scans
    reporter,        \* per scan: the report sink task's state
    wbuf,            \* per scan: records in the file sink's BufWriter
    output,          \* per scan: records printed or flushed to the file
    pb_joins,        \* number of calls of PROGRESS_BAR.join()
    handled          \* per scan: what its workers did with each response

vars == <<cfg, overflow_checks, wordlist, server, pc, target, base, wildcard, filter,
          tx_dir, tx_rpt, wst, widx, rx_dir, rx_rpt, recurser, scans,
          reporter, wbuf, output, pb_joins, handled>>

cfgv == <<cfg, overflow_checks, wordlist, server>>

\* WildcardFilter::default()
DefaultFilter == [size |-> 0, dynamic |-> 0]

\* ------------------------------------------------------- channel handles
Running(s) == {w \in wordlist : wst[s][w] = "run"}

\* live sender handles of the recursion channel: the coordinator's tx_dir
\* and the txd clone of every worker task that has not ended
DirSenders(s) == (IF tx_dir[s] THEN 1 ELSE 0) + Cardinality(Running(s))

\* live sender handles of the report channel: tx_rpt and the txr clones
RptSenders(s) == (IF tx_rpt[s] THEN 1 ELSE 0) + Cardinality(Running(s))

\* the receiver of a channel lives in its consumer task until that ends
DirReceiverAlive(s) == recurser[s] = "recv"
RptReceiverAlive(s) == reporter[s] \in {"open", "recv"}

Created(s) == pc[s] # "free"
Completed(s) == pc[s] \in {"S6", "Panicked"}
NumScans == Cardinality({s \in Scans : Created(s)})

\* ------------------------------------------------------------ the server
\* The responses to a request are drawn from what the server under scan can
\* answer (the variable server): the statuses of its own answers (a 3xx
\* among them has no Location), the urls it redirects to, whether it
\* redirects a directory's url to the url + "/", and its content lengths
\* (NoLen: no Content-Length header).
Response(status, url, loc, len) ==
    [status |-> status, url |-> url, loc |-> loc, len |-> len]

Slashed(url) == [url EXCEPT !.slash = TRUE]

RedirectTargets(url) ==
    server.redirects_to \cup (IF server.dir_redirect THEN {Slashed(url)} ELSE {})

\* With redirects followed the response is the answer at the redirect's
\* target; otherwise it is the 3xx itself, with its Location.
Responses(url) ==
    {Response(st, url, <<>>, n) : st \in server.statuses, n \in server.lens}
      \cup (IF cfg.redirects
            THEN {Response(x[1], x[2], <<>>, x[3]) :
                     x \in server.statuses \X RedirectTargets(url) \X server.lens}
            ELSE {Response(301, url, <<x[1]>>, x[2]) :
                     x \in RedirectTargets(url) \X server.lens})

\* -------------------------------------------------------- make_requests
\* mutant of reached_max_depth: > for >=
reached_max_depth_off_by_one(url, base_depth) ==
    IF cfg.depth = 0 THEN "false"
    ELSE LET depth == get_current_depth(url)
         IN IF UsizeSubOverflows(depth, base_depth) /\ overflow_checks
            THEN "panic"
            ELSE IF UsizeSub(depth, base_depth) > cfg.depth THEN "true"
            ELSE "false"

\* reached_max_depth: "false" when max depth is 0 (recurse forever), else
\* whether depth - base_depth >= max depth; the usize subtraction panics on
\* underflow when overflow checks are compiled in and wraps otherwise
reached_max_depth(url, base_depth) ==
    IF cfg.depth = 0 THEN "false"
    ELSE LET depth == get_current_depth(url)
         IN IF UsizeSubOverflows(depth, base_depth) /\ overflow_checks
            THEN "panic"
            ELSE IF UsizeSub(depth, base_depth) >= cfg.depth THEN "true"
            ELSE "false"

\* mutant of try_recursion: the depth is looked at but its answer is not used
try_recursion_any_depth(resp, base_depth) ==
    LET reached == reached_max_depth(resp.url, base_depth)
    IN IF reached = "panic" THEN "panic"
       ELSE IF response_is_directory(resp) THEN "send"
       ELSE "skip"

\* try_recursion: "send" when the response's url goes on the recursion
\* channel (both arms of the redirects test send the same string)
try_recursion(resp, base_depth) ==
    LET reached == reached_max_depth(resp.url, base_depth)
    IN IF reached = "panic" THEN "panic"
       ELSE IF reached = "false" /\ response_is_directory(resp) THEN "send"
       ELSE "skip"

\* mutant of recursion_outcome: the norecursion option is not looked at
recursion_outcome_always(resp, base_depth) ==
    IF response_is_directory(resp)
    THEN try_recursion(resp, base_depth)
    ELSE "skip"

\* the recursion part of the loop body of make_requests
recursion_outcome(resp, base_depth) ==
    IF ~cfg.norecursion /\ response_is_directory(resp)
    THEN try_recursion(resp, base_depth)
    ELSE "skip"

\* the filters of make_requests: --sizefilters, then the static and the
\* dynamic wildcard of the scan's filter
size_filtered(resp) == content_length(resp) \in cfg.sizefilters

static_filtered(resp, f) ==
    f.size > 0 /\ f.size = content_length(resp) /\ ~cfg.dontfilter

dynamic_filtered(resp, f) ==
    /\ f.dynamic > 0
    /\ ~cfg.dontfilter
    /\ get_url_path_length(resp.url) + f.dynamic = content_length(resp)

\* mutant of filtered_out: the wildcard filters are left out
filtered_out_by_size_only(resp, f) == size_filtered(resp)

filtered_out(resp, f) ==
    size_filtered(resp) \/ static_filtered(resp, f) \/ dynamic_filtered(resp, f)

\* mutant of WorkerUrls: the worker takes the urls last to first
WorkerUrlsReversed(s, w) ==
    LET urls == create_urls(target[s], w, cfg.addslash, cfg.extensions)
    IN [i \in 1..Len(urls) |-> urls[Len(urls) + 1 - i]]

WorkerUrls(s, w) == create_urls(target[s], w, cfg.addslash, cfg.extensions)

\* mutant of AfterUrl: the url after the next one is taken
AfterUrlSkipsOne(s, w) ==
    /\ widx' = [widx EXCEPT ![s][w] = @ + 2]
    /\ wst' = [wst EXCEPT ![s][w] =
                 IF widx[s][w] + 1 >= Len(WorkerUrls(s, w)) THEN "finished" ELSE "run"]

\* the worker's state after the url at widx is done with
AfterUrl(s, w) ==
    /\ widx' = [widx EXCEPT ![s][w] = @ + 1]
    /\ wst' = [wst EXCEPT ![s][w] =
                 IF widx[s][w] >= Len(WorkerUrls(s, w)) THEN "finished" ELSE "run"]

\* make_request returned Err: nothing is sent, on to the next url
RequestError(s, w) ==
    /\ wst[s][w] = "run"
    /\ AfterUrl(s, w)
    /\ UNCHANGED <<cfgv, pc, target, base, wildcard, filter, tx_dir, tx_rpt,
                   rx_dir, rx_rpt, recurser, scans, reporter, wbuf, output,
                   pb_joins, handled>>

\* what a send does: a send fails (and is logged) when the receiver of the
\* channel is gone
send_result(receiver_alive) == IF receiver_alive THEN "sent" ELSE "failed"

\* mutant of loop_body: the filters first, recursion only for a response
\* that survives them
loop_body_filter_first(resp, base_depth, f) ==
    IF filtered_out(resp, f) THEN [rec |-> "skip", report |-> FALSE]
    ELSE LET rec == recursion_outcome(resp, base_depth)
         IN [rec |-> rec, report |-> rec # "panic"]

\* the loop body of make_requests for a response: recursion first, then the
\* filters; report says whether the response goes on the report channel
loop_body(resp, base_depth, f) ==
    LET rec == recursion_outcome(resp, base_depth)
    IN [rec |-> rec, report |-> rec # "panic" /\ ~filtered_out(resp, f)]

\* make_request returned a response: the loop body with its two sends.
\* handled keeps what was done with the response to the request of a url
\* (the worker's log lines).
HandleResponse(s, w, resp) ==
    LET body == loop_body(resp, base[s], filter[s])
        dir == IF body.rec = "send" THEN send_result(DirReceiverAlive(s))
               ELSE IF body.rec = "skip" THEN "skipped" ELSE "panic"
        rpt == IF body.rec = "panic" THEN "none"
               ELSE IF body.report THEN send_result(RptReceiverAlive(s))
               ELSE "filtered"
    IN /\ wst[s][w] = "run"
       /\ IF body.rec = "panic"
          THEN /\ wst' = [wst EXCEPT ![s][w] = "panicked"]
               /\ UNCHANGED widx
          ELSE AfterUrl(s, w)
       /\ rx_dir' = IF dir = "sent"
                    THEN [rx_dir EXCEPT ![s] = Append(@, resp.url)] ELSE rx_dir
       /\ rx_rpt' = IF rpt = "sent"
                    THEN [rx_rpt EXCEPT ![s] = Append(@, resp)] ELSE rx_rpt
       /\ handled' = [handled EXCEPT ![s] =
                        @ \cup {[req |-> WorkerUrls(s, w)[widx[s][w]], resp |-> resp,
                                 dir |-> dir, rpt |-> rpt]}]
       /\ UNCHANGED <<cfgv, pc, target, base, wildcard, filter, tx_dir, tx_rpt,
                      recurser, scans, reporter, wbuf, output, pb_joins>>

Respond(s, w) ==
    /\ wst[s][w] = "run"
    /\ \E resp \in Responses(WorkerUrls(s, w)[widx[s][w]]) : HandleResponse(s, w, resp)

\* ------------------------------------------------------------ scan_url
\* scan_url up to the await of the wildcard test: the channels, the
\* progress-bar join of the first call, the report sink and the recursion
\* dispatcher.  With overflow checks the subtraction of line 433 panics on
\* underflow; the unwinding drops the locals in reverse order of their
\* declaration, the recursion channel before the report channel.
Setup(s) ==
    LET depth == get_current_depth(target[s])
    IN /\ pc[s] = "S0"
       /\ tx_rpt' = [tx_rpt EXCEPT ![s] = TRUE]
       /\ IF UsizeSubOverflows(depth, base[s]) /\ overflow_checks
          THEN /\ pc' = [pc EXCEPT ![s] = "Unwinding"]
               /\ UNCHANGED <<tx_dir, reporter, recurser, pb_joins>>
          ELSE /\ pc' = [pc EXCEPT ![s] = "S0w"]
               /\ tx_dir' = [tx_dir EXCEPT ![s] = TRUE]
               /\ pb_joins' = IF UsizeSub(depth, base[s]) = 0
                              THEN pb_joins + 1 ELSE pb_joins
               /\ reporter' = [reporter EXCEPT ![s] =
                                 IF cfg.output THEN "open" ELSE "recv"]
               /\ recurser' = [recurser EXCEPT ![s] = "recv"]
       /\ UNCHANGED <<cfgv, target, base, wildcard, filter, wst, widx, rx_dir,
                      rx_rpt, scans, wbuf, output, handled>>

\* the end of the unwinding of a panic of scan_url: rx_rpt and tx_rpt are
\* dropped and the task ends
Unwind(s) ==
    /\ pc[s] = "Unwinding"
    /\ tx_rpt' = [tx_rpt EXCEPT ![s] = FALSE]
    /\ pc' = [pc EXCEPT ![s] = "Panicked"]
    /\ UNCHANGED <<cfgv, target, base, wildcard, filter, tx_dir, wst, widx,
                   rx_dir, rx_rpt, recurser, scans, reporter, wbuf, output,
                   pb_joins, handled>>

\* what heuristics::wildcard_test may return: None (<<>>) or Some(filter)
WildcardResults == server.wildcards

\* the filter of the scan: the default one when the test returned None or
\* when auto-filtering is off
choose_filter(found) ==
    IF found = <<>> THEN DefaultFilter
    ELSE IF cfg.dontfilter THEN DefaultFilter
    ELSE found[1]

Calibrate(s) ==
    /\ pc[s] = "S0w"
    /\ \E found \in WildcardResults :
          /\ wildcard' = [wildcard EXCEPT ![s] = found]
          /\ filter' = [filter EXCEPT ![s] = choose_filter(found)]
    /\ pc' = [pc EXCEPT ![s] = "S1"]
    /\ UNCHANGED <<cfgv, target, base, tx_dir, tx_rpt, wst, widx, rx_dir,
                   rx_rpt, recurser, scans, reporter, wbuf, output, pb_joins, handled>>

\* worker tasks spawned and not yet awaited by for_each_concurrent
InFlight(s) == {w \in wordlist : wst[s][w] \in {"run", "finished", "panicked"}}

\* mutant of may_spawn: the stream is polled whatever is in flight
may_spawn_unbounded(s) == TRUE

\* for_each_concurrent(limit): a limit of 0 is no limit
may_spawn(s) == cfg.threads = 0 \/ Cardinality(InFlight(s)) < cfg.threads

\* the stream hands out the next word: the task is spawned with its clones
\* of tx_dir and tx_rpt; a task with no url to request ends at once
SpawnWorker(s, w) ==
    /\ pc[s] = "S1"
    /\ w \in wordlist
    /\ wst[s][w] = "idle"
    /\ may_spawn(s)
    /\ wst' = [wst EXCEPT ![s][w] =
                 IF WorkerUrls(s, w) = <<>> THEN "finished" ELSE "run"]
    /\ widx' = [widx EXCEPT ![s][w] = 1]
    /\ UNCHANGED <<cfgv, pc, target, base, wildcard, filter, tx_dir, tx_rpt,
                   rx_dir, rx_rpt, recurser, scans, reporter, wbuf, output,
                   pb_joins, handled>>

\* for_each_concurrent awaits the join handle of a worker that has ended
\* (Ok: the bar advances; Err after a panic: logged)
JoinWorker(s, w) ==
    /\ pc[s] = "S1"
    /\ wst[s][w] \in {"finished", "panicked"}
    /\ wst' = [wst EXCEPT ![s][w] = "joined"]
    /\ UNCHANGED <<cfgv, pc, target, base, wildcard, filter, tx_dir, tx_rpt,
                   widx, rx_dir, rx_rpt, recurser, scans, reporter, wbuf,
                   output, pb_joins, handled>>

AllJoined(s) == \A w \in wordlist : wst[s][w] = "joined"

\* mutant of CloseRecursion: the two drops swapped, tx_rpt dropped first
CloseRecursionDropsReport(s) ==
    /\ pc[s] = "S1"
    /\ AllJoined(s)
    /\ tx_rpt' = [tx_rpt EXCEPT ![s] = FALSE]
    /\ pc' = [pc EXCEPT ![s] = "S4"]
    /\ UNCHANGED <<cfgv, target, base, wildcard, filter, tx_dir, wst, widx,
                   rx_dir, rx_rpt, recurser, scans, reporter, wbuf, output,
                   pb_joins, handled>>

\* mutant of CloseRecursion: tx_dir is dropped while workers are at work
CloseRecursionBeforeJoin(s) ==
    /\ pc[s] = "S1"
    /\ \A w \in wordlist : wst[s][w] # "idle"
    /\ tx_dir' = [tx_dir EXCEPT ![s] = FALSE]
    /\ pc' = [pc EXCEPT ![s] = "S4"]
    /\ UNCHANGED <<cfgv, target, base, wildcard, filter, tx_rpt, wst, widx,
                   rx_dir, rx_rpt, recurser, scans, reporter, wbuf, output,
                   pb_joins, handled>>

\* producers.await is over; drop(tx_dir)
CloseRecursion(s) ==
    /\ pc[s] = "S1"
    /\ AllJoined(s)
    /\ tx_dir' = [tx_dir EXCEPT ![s] = FALSE]
    /\ pc' = [pc EXCEPT ![s] = "S4"]
    /\ UNCHANGED <<cfgv, target, base, wildcard, filter, tx_rpt, wst, widx,
                   rx_dir, rx_rpt, recurser, scans, reporter, wbuf, output,
                   pb_joins, handled>>

ChildrenDone(s) == \A i \in 1..Len(scans[s]) : Completed(scans[s][i])

\* mutant of AwaitRecursion: the handles the dispatcher returns are dropped
\* without being awaited
AwaitRecursionNoJoin(s) ==
    /\ pc[s] = "S4"
    /\ recurser[s] = "done"
    /\ pc' = [pc EXCEPT ![s] = "S5"]
    /\ UNCHANGED <<cfgv, target, base, wildcard, filter, tx_dir, tx_rpt, wst,
                   widx, rx_dir, rx_rpt, recurser, scans, reporter, wbuf,
                   output, pb_joins, handled>>

\* join_all(recurser.await.unwrap()).await is over: the dispatcher has
\* returned its vector and every scan in it has ended (returned or panicked)
AwaitRecursion(s) ==
    /\ pc[s] = "S4"
    /\ recurser[s] = "done"
    /\ ChildrenDone(s)
    /\ pc' = [pc EXCEPT ![s] = "S5"]
    /\ UNCHANGED <<cfgv, target, base, wildcard, filter, tx_dir, tx_rpt, wst,
                   widx, rx_dir, rx_rpt, recurser, scans, reporter, wbuf,
                   output, pb_joins, handled>>

\* drop(tx_rpt)
CloseReport(s) ==
    /\ pc[s] = "S5"
    /\ tx_rpt' = [tx_rpt EXCEPT ![s] = FALSE]
    /\ pc' = [pc EXCEPT ![s] = "S5w"]
    /\ UNCHANGED <<cfgv, target, base, wildcard, filter, tx_dir, wst, widx,
                   rx_dir, rx_rpt, recurser, scans, reporter, wbuf, output,
                   pb_joins, handled>>

\* reporter.await is over; scan_url returns
AwaitReporter(s) ==
    /\ pc[s] = "S5w"
    /\ reporter[s] = "done"
    /\ pc' = [pc EXCEPT ![s] = "S6"]
    /\ UNCHANGED <<cfgv, target, base, wildcard, filter, tx_dir, tx_rpt, wst,
                   widx, rx_dir, rx_rpt, recurser, scans, reporter, wbuf,
                   output, pb_joins, handled>>

\* ------------------------------------------------ spawn_recursion_handler
\* mutant of RecurserRecv: the child scan counts its depth from its own
\* target
RecurserRecvRebased(s) ==
    /\ recurser[s] = "recv"
    /\ rx_dir[s] # <<>>
    /\ NumScans < MaxScans
    /\ LET c == NumScans + 1
       IN /\ pc' = [pc EXCEPT ![c] = "S0"]
          /\ target' = [target EXCEPT ![c] = Head(rx_dir[s])]
          /\ base' = [base EXCEPT ![c] = get_current_depth(Head(rx_dir[s]))]
          /\ scans' = [scans EXCEPT ![s] = Append(@, c)]
    /\ rx_dir' = [rx_dir EXCEPT ![s] = Tail(@)]
    /\ UNCHANGED <<cfgv, wildcard, filter, tx_dir, tx_rpt, wst, widx, rx_rpt,
                   recurser, reporter, wbuf, output, pb_joins, handled>>

\* recv() returned Some(url): a scan of that url is spawned with the
\* dispatcher's wordlist and base_depth and its handle is pushed
RecurserRecv(s) ==
    /\ recurser[s] = "recv"
    /\ rx_dir[s] # <<>>
    /\ NumScans < MaxScans
    /\ LET c == NumScans + 1
       IN /\ pc' = [pc EXCEPT ![c] = "S0"]
          /\ target' = [target EXCEPT ![c] = Head(rx_dir[s])]
          /\ base' = [base EXCEPT ![c] = base[s]]
          /\ scans' = [scans EXCEPT ![s] = Append(@, c)]
    /\ rx_dir' = [rx_dir EXCEPT ![s] = Tail(@)]
    /\ UNCHANGED <<cfgv, wildcard, filter, tx_dir, tx_rpt, wst, widx, rx_rpt,
                   recurser, reporter, wbuf, output, pb_joins, handled>>

\* mutant of RecurserExit: the loop is left on an empty queue, senders or not
RecurserExitOnEmpty(s) ==
    /\ recurser[s] = "recv"
    /\ rx_dir[s] = <<>>
    /\ recurser' = [recurser EXCEPT ![s] = "done"]
    /\ UNCHANGED <<cfgv, pc, target, base, wildcard, filter, tx_dir, tx_rpt,
                   wst, widx, rx_dir, rx_rpt, scans, reporter, wbuf, output,
                   pb_joins, handled>>

\* mutant of RecurserExit: the dispatcher returns after the scans it has
\* spawned so far, with senders alive
RecurserExitAfterSpawn(s) ==
    /\ recurser[s] = "recv"
    /\ rx_dir[s] = <<>>
    /\ scans[s] # <<>> \/ DirSenders(s) = 0
    /\ recurser' = [recurser EXCEPT ![s] = "done"]
    /\ UNCHANGED <<cfgv, pc, target, base, wildcard, filter, tx_dir, tx_rpt,
                   wst, widx, rx_dir, rx_rpt, scans, reporter, wbuf, output,
                   pb_joins, handled>>

\* recv() returned None: every sender is dropped and the queue is empty
RecurserExit(s) ==
    /\ recurser[s] = "recv"
    /\ rx_dir[s] = <<>>
    /\ DirSenders(s) = 0
    /\ recurser' = [recurser EXCEPT ![s] = "done"]
    /\ UNCHANGED <<cfgv, pc, target, base, wildcard, filter, tx_dir, tx_rpt,
                   wst, widx, rx_dir, rx_rpt, scans, reporter, wbuf, output,
                   pb_joins, handled>>

\* ------------------------------------------------------- the report sinks
\* the record of a response: status, content length (0 without one), url
format_record(resp) ==
    [status |-> resp.status, len |-> content_length(resp), url |-> resp.url]

\* mutant of reportable: every response received is reported
reportable_any(resp) == TRUE

\* the test both sinks make before they format a response
reportable(resp) == resp.status \in cfg.statuscodes

\* spawn_file_reporter, the open: on Err the task logs and returns, which
\* drops the receiver
FileOpen(s) ==
    /\ reporter[s] = "open"
    /\ \E ok \in BOOLEAN :
          reporter' = [reporter EXCEPT ![s] = IF ok THEN "recv" ELSE "done"]
    /\ UNCHANGED <<cfgv, pc, target, base, wildcard, filter, tx_dir, tx_rpt,
                   wst, widx, rx_dir, rx_rpt, recurser, scans, wbuf, output,
                   pb_joins, handled>>

\* spawn_file_reporter, one turn of the loop: a reportable response is
\* written to the BufWriter (or the write fails), then the flush puts the
\* buffer in the file (or fails and leaves it)
FileReport(s, write_ok, flush_ok) ==
    LET resp == Head(rx_rpt[s])
        buf == IF reportable(resp) /\ write_ok
               THEN Append(wbuf[s], format_record(resp)) ELSE wbuf[s]
    IN /\ wbuf' = [wbuf EXCEPT ![s] = IF flush_ok THEN <<>> ELSE buf]
       /\ output' = [output EXCEPT ![s] = IF flush_ok THEN @ \o buf ELSE @]

\* spawn_terminal_reporter, one turn of the loop
TerminalReport(s) ==
    LET resp == Head(rx_rpt[s])
    IN /\ output' = [output EXCEPT ![s] =
                       IF reportable(resp) THEN Append(@, format_record(resp)) ELSE @]
       /\ UNCHANGED wbuf

ReporterRecv(s) ==
    /\ reporter[s] = "recv"
    /\ rx_rpt[s] # <<>>
    /\ IF cfg.output
       THEN \E write_ok, flush_ok \in BOOLEAN : FileReport(s, write_ok, flush_ok)
       ELSE TerminalReport(s)
    /\ rx_rpt' = [rx_rpt EXCEPT ![s] = Tail(@)]
    /\ UNCHANGED <<cfgv, pc, target, base, wildcard, filter, tx_dir, tx_rpt,
                   wst, widx, rx_dir, recurser, scans, reporter, pb_joins, handled>>

\* recv() returned None: every sender is dropped and the queue is empty;
\* what is left in the BufWriter is dropped with it
ReporterExit(s) ==
    /\ reporter[s] = "recv"
    /\ rx_rpt[s] = <<>>
    /\ RptSenders(s) = 0
    /\ reporter' = [reporter EXCEPT ![s] = "done"]
    /\ wbuf' = [wbuf EXCEPT ![s] = <<>>]
    /\ UNCHANGED <<cfgv, pc, target, base, wildcard, filter, tx_dir, tx_rpt,
                   wst, widx, rx_dir, rx_rpt, recurser, scans, output, pb_joins, handled>>

\* ------------------------------------------------------------------ Init
\* A scenario is a configuration, a wordlist, a server and a build profile.
Options(norec, depths, redir, dontf, sizef, thr, outs, exts) ==
    [norecursion : norec,
     depth       : depths,
     redirects   : redir,
     dontfilter  : dontf,
     statuscodes : {{200, 301}},
     sizefilters : sizef,
     threads     : thr,
     output      : outs,
     addslash    : {FALSE},
     extensions  : exts]

AllWildcards ==
    {<<>>} \cup {<<[size |-> sz, dynamic |-> dy]>> : sz \in {0, 7}, dy \in {0, 1}}

\* a server of pages without Content-Length, that is never calibrated
PlainServers(statuses, redirects_to, dir_redirect) ==
    [statuses     : statuses,
     lens         : {{NoLen}},
     redirects_to : redirects_to,
     dir_redirect : dir_redirect,
     wildcards    : {{<<>>}}]

\* a server with the content lengths the filters are about
SizedServers(wildcards) ==
    [statuses     : {{200, 404}},
     lens         : {{NoLen, 5, 6, 7}},
     redirects_to : {{}},
     dir_redirect : {TRUE},
     wildcards    : wildcards]

Scenario(cfgs, wordlists, servers, builds) ==
    [cfg : cfgs, wordlist : wordlists, server : servers, overflow_checks : builds]

\* the recursion tree of one word, redirects not followed
TreeScenarios ==
    Scenario(Options({FALSE}, {0, 1, 2}, {FALSE}, {FALSE}, {{}}, {0}, {FALSE}, {<<>>}),
             {{"a"}}, PlainServers({Statuses}, {{HomeUrl}}, {TRUE}), {FALSE})

\* one word with an extension: two requests of one worker, sibling scans
SiblingScenarios ==
    Scenario(Options({FALSE}, {2}, {FALSE}, {FALSE}, {{}}, {0}, {FALSE}, {<<"js">>}),
             {{"a"}}, PlainServers({{}}, {{}}, {TRUE}), {FALSE})

\* redirects followed: to the scanned directory, to the site's home, deeper
RedirectScenarios ==
    Scenario(Options({FALSE}, {0, 1, 2}, {TRUE}, {FALSE}, {{}}, {0}, {FALSE}, {<<>>}),
             {{"a"}},
             PlainServers({{200, 404}}, {{RootDir}, {HomeUrl}, {DeepDir}}, {FALSE}),
             BOOLEAN)

\* the file sink, without recursion and with one level of it
SinkScenarios ==
    Scenario(Options(BOOLEAN, {2}, {FALSE}, {FALSE}, {{}}, {0}, {TRUE}, {<<>>}),
             {{"a"}}, PlainServers({Statuses}, {{}}, {TRUE}), {FALSE})

\* the workers of one scan: two words and a limit of concurrency
WorkerScenarios ==
    Scenario(Options({TRUE}, {0}, {FALSE}, {FALSE}, {{}}, {0, 1, 2}, {FALSE}, {<<>>}),
             {{"a", "b"}}, PlainServers({Statuses}, {{}}, {TRUE}), {FALSE})

\* the filters: content lengths, size filter and wildcard filters, in one
\* scan with every calibration and in two scans with one
FilterScenarios ==
    Scenario(Options({FALSE}, {1}, {FALSE}, BOOLEAN, {{}, {6}}, {0}, BOOLEAN, {<<>>}),
             {{"a"}}, SizedServers({AllWildcards}), {FALSE})
      \cup
    Scenario(Options({FALSE}, {2}, {FALSE}, BOOLEAN, {{6}}, {0}, {FALSE}, {<<>>}),
             {{"a"}}, SizedServers({{<<[size |-> 7, dynamic |-> 1]>>}}), {FALSE})

\* two words redirected to the same directory: one url found twice
DuplicateScenarios ==
    Scenario(Options({FALSE}, {0}, {TRUE}, {FALSE}, {{}}, {1}, {FALSE}, {<<>>}),
             {{"a", "b"}}, PlainServers({{200}}, {{HomeUrl}}, {FALSE}), {TRUE})

Scenarios ==
    TreeScenarios \cup SiblingScenarios \cup RedirectScenarios \cup SinkScenarios
      \cup WorkerScenarios \cup FilterScenarios \cup DuplicateScenarios

Init ==
    /\ \E sc \in Scenarios :
          /\ cfg = sc.cfg
          /\ wordlist = sc.wordlist
          /\ server = sc.server
          /\ overflow_checks = sc.overflow_checks
    /\ pc = [s \in Scans |-> IF s = Root THEN "S0" ELSE "free"]
    /\ target = [s \in Scans |-> RootUrl]
    /\ base = [s \in Scans |-> get_current_depth(RootUrl)]
    /\ wildcard = [s \in Scans |-> <<>>]
    /\ filter = [s \in Scans |-> DefaultFilter]
    /\ tx_dir = [s \in Scans |-> FALSE]
    /\ tx_rpt = [s \in Scans |-> FALSE]
    /\ wst = [s \in Scans |-> [w \in Words |-> "idle"]]
    /\ widx = [s \in Scans |-> [w \in Words |-> 0]]
    /\ rx_dir = [s \in Scans |-> <<>>]
    /\ rx_rpt = [s \in Scans |-> <<>>]
    /\ recurser = [s \in Scans |-> "absent"]
    /\ scans = [s \in Scans |-> <<>>]
    /\ reporter = [s \in Scans |-> "absent"]
    /\ wbuf = [s \in Scans |-> <<>>]
    /\ output = [s \in Scans |-> <<>>]
    /\ pb_joins = 0
    /\ handled = [s \in Scans |-> {}]

Next ==
    \/ \E s \in Scans : Setup(s)
    \/ \E s \in Scans : Unwind(s)
    \/ \E s \in Scans : Calibrate(s)
    \/ \E s \in Scans, w \in Words : SpawnWorker(s, w)
    \/ \E s \in Scans, w \in Words : RequestError(s, w)
    \/ \E s \in Scans, w \in Words : Respond(s, w)
    \/ \E s \in Scans, w \in Words : JoinWorker(s, w)
    \/ \E s \in Scans : CloseRecursion(s)
    \/ \E s \in Scans : RecurserRecv(s)
    \/ \E s \in Scans : RecurserExit(s)
    \/ \E s \in Scans : AwaitRecursion(s)
    \/ \E s \in Scans : CloseReport(s)
    \/ \E s \in Scans : FileOpen(s)
    \/ \E s \in Scans : ReporterRecv(s)
    \/ \E s \in Scans : ReporterExit(s)
    \/ \E s \in Scans : AwaitReporter(s)

Spec == Init /\ [][Next]_vars

\* ------------------------------------------------- the expander alone
\* the lists of at most MaxExts extensions
ExtLists == UNION {[1..n -> Exts] : n \in 0..MaxExts}

\* one scan about to produce: a target, one word, a list of extensions and
\* the addslash option, each drawn from a small set
ExpandInit ==
    /\ \E exts \in ExtLists, slash \in BOOLEAN :
          cfg = [norecursion |-> TRUE, depth |-> 0, redirects |-> FALSE,
                 dontfilter |-> FALSE, statuscodes |-> {200, 301},
                 sizefilters |-> {}, threads |-> 0, output |-> FALSE,
                 addslash |-> slash, extensions |-> exts]
    /\ \E w \in Words : wordlist = {w}
    /\ server = [statuses |-> {}, lens |-> {NoLen}, redirects_to |-> {},
                 dir_redirect |-> FALSE, wildcards |-> {<<>>}]
    /\ overflow_checks = FALSE
    /\ pc = [s \in Scans |-> IF s = Root THEN "S1" ELSE "free"]
    /\ \E t \in {HomeUrl, RootUrl, RootDir} :
          /\ target = [s \in Scans |-> t]
          /\ base = [s \in Scans |-> get_current_depth(t)]
    /\ wildcard = [s \in Scans |-> <<>>]
    /\ filter = [s \in Scans |-> DefaultFilter]
    /\ tx_dir = [s \in Scans |-> s = Root]
    /\ tx_rpt = [s \in Scans |-> s = Root]
    /\ wst = [s \in Scans |-> [w \in Words |-> "idle"]]
    /\ widx = [s \in Scans |-> [w \in Words |-> 0]]
    /\ rx_dir = [s \in Scans |-> <<>>]
    /\ rx_rpt = [s \in Scans |-> <<>>]
    /\ recurser = [s \in Scans |-> IF s = Root THEN "recv" ELSE "absent"]
    /\ scans = [s \in Scans |-> <<>>]
    /\ reporter = [s \in Scans |-> IF s = Root THEN "recv" ELSE "absent"]
    /\ wbuf = [s \in Scans |-> <<>>]
    /\ output = [s \in Scans |-> <<>>]
    /\ pb_joins = 1
    /\ handled = [s \in Scans |-> {}]

\* the worker task starts: make_requests calls create_urls
ExpandNext == \E w \in Words : SpawnWorker(Root, w)

ExpandSpec == ExpandInit /\ [][ExpandNext]_vars

\* the scheduler runs every task that can run and every request returns:
\* the system does not stop while a step is possible
FairSpec == Spec /\ WF_vars(Next)

\* ---------------------------------------------------------------- claims
\* the channels of a scan exist from Setup on
ChannelsCreated(s) == pc[s] \notin {"free", "S0"}

\* a channel is closed when every sender handle of it is dropped
DirClosed(s) == ChannelsCreated(s) /\ DirSenders(s) = 0
RptClosed(s) == ChannelsCreated(s) /\ RptSenders(s) = 0

\* C1: in every scan the recursion channel is closed strictly before the
\* report channel: the report channel is never closed while the recursion
\* channel is open, and at the step that closes the report channel the
\* recursion channel is closed already.
C1_RecursionClosedFirst ==
    /\ [](\A s \in Scans : RptClosed(s) => DirClosed(s))
    /\ [][\A s \in Scans : (~RptClosed(s) /\ RptClosed(s)') => DirClosed(s)]_vars

\* a scan whose report channel is closed after its workers reported
C1_Witness ==
    \E s \in Scans : RptClosed(s) /\ DirClosed(s) /\ handled[s] # {}

\* the scans spawned by the dispatcher of s, and by theirs, and so on
RECURSIVE Descendants(_)
Descendants(s) ==
    LET kids == {scans[s][i] : i \in 1..Len(scans[s])}
    IN kids \cup UNION {Descendants(c) : c \in kids}

\* C2: no orphan tasks: when scan_url has returned, every request worker of
\* the scan has ended, its dispatcher and its sink have returned, nothing
\* is left on its recursion channel and every scan spawned from it,
\* transitively, has ended.
C2_NoOrphanTasks ==
    \A s \in Scans :
        pc[s] = "S6" =>
            /\ \A w \in wordlist : wst[s][w] = "joined"
            /\ recurser[s] = "done"
            /\ reporter[s] = "done"
            /\ rx_dir[s] = <<>>
            /\ \A c \in Descendants(s) : Completed(c)

\* the root scan has returned after a child and a grandchild scan
C2_Witness ==
    /\ pc[Root] = "S6"
    /\ \E c \in Descendants(Root) : scans[c] # <<>>

\* the order of the coordinator's positions: S0 Setup ("S0", "S0w"), S1
\* Produce and S2 Drain-producers ("S1"), S3 Close-recursion (the step to
\* "S4"), S4 Drain-recursion ("S4"), S5 Close-report ("S5", "S5w"), S6 Done
CoordinatorOrder ==
    {<<"free", "S0">>, <<"S0", "S0w">>, <<"S0w", "S1">>, <<"S1", "S4">>,
     <<"S4", "S5">>, <<"S5", "S5w">>, <<"S5w", "S6">>}

\* every scan there is has returned; the root scan returns last (C2)
AllDone == \A s \in Scans : pc[s] \in {"free", "S6"}

C3_WithoutRedirects ==
    /\ [][\A s \in Scans :
            (cfg.depth > 0 /\ ~cfg.redirects /\ pc'[s] # pc[s])
                => <<pc[s], pc'[s]>> \in CoordinatorOrder]_vars
    /\ (cfg.depth > 0 /\ ~cfg.redirects) ~> AllDone

\* C4: the Report Sink processes every sent response before returning:
\* when the sink task of a scan has returned, its channel is closed (no
\* sender handle is left) and drained (no response sent is left on it).
C4_SinkDrainsBeforeReturn ==
    \A s \in Scans :
        reporter[s] = "done" => (RptSenders(s) = 0 /\ rx_rpt[s] = <<>>)

\* a response was sent and its scan has ended with the response not
\* received by the sink, which had returned
C4_Witness ==
    \E s \in Scans :
        /\ pc[s] = "S6"
        /\ rx_rpt[s] # <<>>
        /\ \E h \in handled[s] : h.rpt = "sent"

\* C4 for the terminal variant, where it holds
C4_TerminalSinkDrains ==
    ~cfg.output => C4_SinkDrainsBeforeReturn

\* ------------------------------------------- the claims' reading of spec 4
\* depth of a url, as the depth claims count it
Depth(url) == Len(url.segs)

\* spec 4.2: a 3xx whose Location is the url plus "/", or a 2xx whose url
\* ends with "/"
ClassifiedDirectory(resp) ==
    \/ /\ resp.status \in 300..399
       /\ resp.loc # <<>>
       /\ resp.loc[1] = [segs |-> resp.url.segs, slash |-> TRUE]
       /\ ~resp.url.slash
    \/ /\ resp.status \in 200..299
       /\ resp.url.slash

\* the deepest url max depth d lets on a recursion channel
DepthLimit == base[Root] + cfg.depth - 1

\* the urls that were sent on the recursion channel of s
SentForRecursion(s) == {h.resp.url : h \in {g \in handled[s] : g.dir = "sent"}}

\* C5: with max depth d > 0 no url deeper than base_depth + d - 1, base_depth
\* the root scan's, is ever sent on a recursion channel, and no child scan
\* is rooted at such a url.
C5_DepthBound ==
    cfg.depth > 0 =>
        \A s \in Scans :
            /\ \A url \in SentForRecursion(s) : Depth(url) <= DepthLimit
            /\ \A i \in 1..Len(rx_dir[s]) : Depth(rx_dir[s][i]) <= DepthLimit
            /\ (s # Root /\ Created(s)) => Depth(target[s]) <= DepthLimit

\* a child scan rooted at the deepest url allowed has found a deeper
\* directory, which was not sent
C5_Witness ==
    /\ cfg.depth > 0
    /\ \E s \in Scans \ {Root} :
          /\ Created(s)
          /\ Depth(target[s]) = DepthLimit
          /\ \E h \in handled[s] :
                /\ ClassifiedDirectory(h.resp)
                /\ Depth(h.resp.url) > DepthLimit
                /\ h.dir = "skipped"

\* a directory response handled under max_depth = 2 and base_depth = 1
DepthScenario(s, h) ==
    /\ cfg.depth = 2
    /\ base[s] = 1
    /\ ~cfg.norecursion
    /\ ClassifiedDirectory(h.resp)

\* C6 as stated: with max_depth = 2 and base_depth = 1 a directory response
\* at depth 3 is sent on the recursion channel, one at depth 4 is not.
C6_Original ==
    \A s \in Scans : \A h \in handled[s] :
        DepthScenario(s, h) =>
            /\ Depth(h.resp.url) = 3 => h.dir = "sent"
            /\ Depth(h.resp.url) = 4 => h.dir # "sent"

\* C6, amended: with max_depth = 2 and base_depth = 1 a directory response
\* at depth 2 is sent on the recursion channel, one at depth 3 or at depth 4
\* is not.
C6_DepthScenario ==
    \A s \in Scans : \A h \in handled[s] :
        DepthScenario(s, h) =>
            /\ Depth(h.resp.url) = 2 => h.dir = "sent"
            /\ Depth(h.resp.url) \in {3, 4} => h.dir = "skipped"

\* in the scenario a directory at depth 2 was sent and scanned, and the
\* directory at depth 3 found by that scan was not sent
C6_Witness ==
    \E s \in Scans : \E c \in Scans \ {Root} :
        /\ \E h \in handled[s] :
              /\ DepthScenario(s, h)
              /\ Depth(h.resp.url) = 2
              /\ h.dir = "sent"
              /\ target[c] = h.resp.url
        /\ \E h \in handled[c] :
              /\ DepthScenario(c, h)
              /\ Depth(h.resp.url) = 3
              /\ h.dir = "skipped"

\* Content-Length of a response, 0 when the header is missing
ContentLength(resp) == IF resp.len = NoLen THEN 0 ELSE resp.len

\* the response of a record matches the wildcard the scan's test found
MatchesWildcard(s, url, len) ==
    /\ wildcard[s] # <<>>
    /\ \/ wildcard[s][1].size # 0 /\ len = wildcard[s][1].size
       \/ /\ wildcard[s][1].dynamic # 0
          /\ len = get_url_path_length(url) + wildcard[s][1].dynamic

\* the records a sink has emitted, in the file, on the terminal or in the
\* file's buffer
Emitted(s) ==
    {output[s][i] : i \in 1..Len(output[s])} \cup {wbuf[s][i] : i \in 1..Len(wbuf[s])}

\* C7: every record a Report Sink emits is for a response whose status is in
\* the allow-set, whose content length is not in the size-filter set and,
\* when auto-filter is enabled, matches neither the nonzero static size nor
\* url path length + the nonzero dynamic offset of the scan's wildcard.
C7_EmittedPassFilters ==
    \A s \in Scans : \A rec \in Emitted(s) :
        /\ rec.status \in cfg.statuscodes
        /\ rec.len \notin cfg.sizefilters
        /\ ~cfg.dontfilter => ~MatchesWildcard(s, rec.url, rec.len)

\* with a wildcard found and auto-filter enabled a scan has emitted a
\* record, and a response that matches the wildcard was filtered
C7_Witness ==
    /\ ~cfg.dontfilter
    /\ \E s \in Scans : wildcard[s] # <<>> /\ output[s] # <<>>
    /\ \E s \in Scans : \E h \in handled[s] :
          /\ MatchesWildcard(s, h.resp.url, ContentLength(h.resp))
          /\ h.rpt = "filtered"

\* C8 as stated: the worker discards a response whose status is not in the
\* allow-set: it is never sent on the report channel.
C8_Original ==
    \A s \in Scans : \A i \in 1..Len(rx_rpt[s]) :
        rx_rpt[s][i].status \in cfg.statuscodes

\* C8, amended: the status allow-set is applied by the Report Sink, not by
\* the worker: the sink's receipt of a response whose status is not in the
\* allow-set emits no record.
C8_SinkDiscardsStatus ==
    [][\A s \in Scans :
          (/\ rx_rpt[s] # <<>>
           /\ rx_rpt'[s] = Tail(rx_rpt[s])
           /\ Head(rx_rpt[s]).status \notin cfg.statuscodes)
              => output'[s] \o wbuf'[s] = output[s] \o wbuf[s]]_vars

\* a response with a status outside the allow-set was sent on the report
\* channel and received by the sink, which has returned without a record
\* of it
C8_Witness ==
    \E s \in Scans :
        /\ reporter[s] = "done"
        /\ rx_rpt[s] = <<>>
        /\ \E h \in handled[s] :
              /\ h.resp.status \notin cfg.statuscodes
              /\ h.rpt = "sent"
              /\ \A rec \in Emitted(s) : rec.url # h.resp.url

\* max depth is not reached for a url: max depth is 0, or the url is less
\* than max depth below the base depth
DepthNotReached(s, url) ==
    \/ cfg.depth = 0
    \/ Depth(url) >= base[s] /\ Depth(url) - base[s] < cfg.depth

\* the response matches the size-filter set or the wildcard filter
MatchesFilter(s, resp) ==
    \/ ContentLength(resp) \in cfg.sizefilters
    \/ ~cfg.dontfilter /\ MatchesWildcard(s, resp.url, ContentLength(resp))

\* C9: recursion is decided before filtering: with recursion enabled and max
\* depth not reached, a directory response that matches the size-filter set
\* or the wildcard filter is not sent on the report channel and its url is
\* sent on the recursion channel.
C9_RecursionBeforeFilter ==
    \A s \in Scans : \A h \in handled[s] :
        (/\ ~cfg.norecursion
         /\ DepthNotReached(s, h.resp.url)
         /\ ClassifiedDirectory(h.resp)
         /\ MatchesFilter(s, h.resp))
            => (h.rpt = "filtered" /\ h.dir = "sent")

\* a filtered directory response was sent for recursion and a child scan
\* of its url was spawned
C9_Witness ==
    \E s \in Scans : \E h \in handled[s] :
        /\ ClassifiedDirectory(h.resp)
        /\ MatchesFilter(s, h.resp)
        /\ h.rpt = "filtered"
        /\ h.dir = "sent"
        /\ \E c \in Scans \ {Root} : Created(c) /\ target[c] = h.resp.url

\* C10: a url is sent on a recursion channel only if recursion is enabled
\* and its response was classified as a directory; with the
\* recursion-disabled flag nothing is on any recursion channel and no child
\* scan is spawned.
C10_RecursionOnlyForDirectories ==
    /\ \A s \in Scans : \A h \in handled[s] :
          h.dir \in {"sent", "failed"} =>
              (~cfg.norecursion /\ ClassifiedDirectory(h.resp))
    /\ \A s \in Scans : \A i \in 1..Len(rx_dir[s]) :
          rx_dir[s][i] \in SentForRecursion(s)
    /\ cfg.norecursion =>
          \A s \in Scans :
              /\ rx_dir[s] = <<>>
              /\ scans[s] = <<>>
              /\ s # Root => ~Created(s)

\* a directory was sent and a child scan spawned for it, and a response
\* that is no directory was not sent
C10_Witness ==
    /\ \E s \in Scans :
          /\ \E h \in handled[s] : h.dir = "sent" /\ ClassifiedDirectory(h.resp)
          /\ scans[s] # <<>>
    /\ \E s \in Scans :
          \E h \in handled[s] : h.dir = "skipped" /\ ~ClassifiedDirectory(h.resp)

\* the workers of s spawned and not yet joined by the coordinator
WorkersInFlight(s) == {w \in wordlist : wst[s][w] \notin {"idle", "joined"}}

\* C11 as stated: each scan has at most threads of its workers in flight,
\* for every configured value of threads.
C11_Original ==
    \A s \in Scans : Cardinality(WorkersInFlight(s)) <= cfg.threads

\* C11, amended: for every configured threads > 0 each scan has at most
\* threads of its workers in flight; threads = 0 sets no bound.
C11_ConcurrencyBound ==
    cfg.threads > 0 =>
        \A s \in Scans : Cardinality(WorkersInFlight(s)) <= cfg.threads

\* a scan has threads workers in flight and a word of the wordlist waits
C11_Witness ==
    /\ cfg.threads > 0
    /\ \E s \in Scans :
          /\ pc[s] = "S1"
          /\ Cardinality(WorkersInFlight(s)) = cfg.threads
          /\ \E w \in wordlist : wst[s][w] = "idle"

\* the file sink of s takes a response off its channel
FileSinkReceives(s) ==
    /\ cfg.output
    /\ rx_rpt[s] # <<>>
    /\ rx_rpt'[s] = Tail(rx_rpt[s])

\* the file sink task of s returns
FileSinkReturns(s) ==
    /\ cfg.output
    /\ reporter[s] # "done"
    /\ reporter'[s] = "done"

\* C12: on any error of the file sink (open, write or flush) the sink goes on
\* consuming its report channel until the channel is closed and drained:
\* whatever a write and a flush do, the sink is consuming after the
\* response, and the sink task returns only at a closed and drained channel.
C12_FileErrorsSwallowed ==
    [][\A s \in Scans :
          /\ FileSinkReceives(s) => reporter'[s] = "recv"
          /\ FileSinkReturns(s) => (RptSenders(s) = 0 /\ rx_rpt[s] = <<>>)]_vars

\* the output file could not be opened and a worker's send on the report
\* channel has failed
C12_Witness ==
    /\ cfg.output
    /\ \E s \in Scans :
          /\ reporter[s] = "done"
          /\ output[s] = <<>>
          /\ \E h \in handled[s] : h.rpt = "failed"

\* C12 for write and flush errors, where it holds: a write that fails and a
\* flush that fails leave the sink consuming
C12_WriteFlushErrorsSwallowed ==
    [][\A s \in Scans : FileSinkReceives(s) => reporter'[s] = "recv"]_vars

\* the worker of word w in scan s is done with a request
RequestDone(s, w) ==
    /\ w \in wordlist
    /\ wst[s][w] = "run"
    /\ widx'[s][w] # widx[s][w]

\* C13: a worker issues exactly one request for each url of the expander, in
\* turn: a request that fails sends nothing on the report channel and
\* nothing on the recursion channel and the worker goes on to the next url;
\* a request that succeeds sends at most one message on the report channel.
C13_OneRequestPerUrl ==
    /\ [](\A s \in Scans :
            /\ \A w \in wordlist :
                  wst[s][w] = "finished" => widx[s][w] = Len(WorkerUrls(s, w)) + 1
            /\ \A g, h \in handled[s] : g.req = h.req => g = h)
    /\ [][\A s \in Scans :
            /\ \A w \in wordlist :
                  RequestDone(s, w) =>
                      /\ widx'[s][w] = widx[s][w] + 1
                      /\ (\A h \in handled'[s] : h.req # WorkerUrls(s, w)[widx[s][w]])
                            => (rx_rpt'[s] = rx_rpt[s] /\ rx_dir'[s] = rx_dir[s])
            /\ handled'[s] # handled[s]
                  => /\ Len(rx_rpt'[s]) <= Len(rx_rpt[s]) + 1
                     /\ Len(rx_dir'[s]) <= Len(rx_dir[s]) + 1
                     /\ \E w \in wordlist :
                           \/ RequestDone(s, w)
                           \/ wst[s][w] = "run" /\ wst'[s][w] = "panicked"]_vars

\* a worker with two urls has ended: its first request failed and left
\* nothing, its second request was answered and reported
C13_Witness ==
    \E s \in Scans : \E w \in wordlist :
        /\ Len(WorkerUrls(s, w)) = 2
        /\ wst[s][w] = "finished"
        /\ \A h \in handled[s] : h.req # WorkerUrls(s, w)[1]
        /\ \E h \in handled[s] : h.req = WorkerUrls(s, w)[2] /\ h.rpt = "sent"

\* the extensions of the candidates of the expander: none, then each
\* extension given
Candidates(extensions) == <<"">> \o extensions

\* the candidates of word w that parse, by their place in Candidates
Parsing(w) ==
    {i \in 1..(1 + Len(cfg.extensions)) :
        format_url(target[Root], w, cfg.addslash, Candidates(cfg.extensions)[i]) # <<>>}

\* what create_urls returned to the worker of word w
Expanded(w) == create_urls(target[Root], w, cfg.addslash, cfg.extensions)

\* the worker of word w has made its call of create_urls
Called(w) == w \in wordlist /\ wst[Root][w] # "idle"

CandidateUrl(w, e) ==
    [segs |-> Append(target[Root].segs, <<w, e>>), slash |-> cfg.addslash]

\* the extensions of the candidates of word w that parse, in their order
Kept(w) == SelectSeq(Candidates(cfg.extensions), LAMBDA e : ~Malformed(w, e))

ChildTargets(s) == {target[scans[s][i]] : i \in 1..Len(scans[s])}

\* a url is sent on the recursion channel of s
RecursionSend(s) ==
    /\ scans'[s] = scans[s]
    /\ \E h \in handled'[s] :
          h.dir = "sent" /\ rx_dir'[s] = Append(rx_dir[s], h.resp.url)

\* the dispatcher of s takes a url and spawns one scan of it, a scan that
\* did not exist, with the root's base_depth and the shared wordlist
RecursionSpawn(s) ==
    /\ rx_dir[s] # <<>>
    /\ rx_dir'[s] = Tail(rx_dir[s])
    /\ wordlist' = wordlist
    /\ \E c \in Scans :
          /\ pc[c] = "free"
          /\ pc'[c] = "S0"
          /\ scans'[s] = Append(scans[s], c)
          /\ target'[c] = Head(rx_dir[s])
          /\ base'[c] = base[Root]

\* C16: for each url received on a recursion channel the dispatcher spawns
\* exactly one child scan of that url, with the shared wordlist and the
\* original base_depth: every scan runs with the root's base_depth, and a
\* dispatcher that has returned has spawned one child for every message
\* sent on its channel, a url sent twice being scanned twice.
C16_OneChildPerUrl ==
    /\ [](\A s \in Scans :
            /\ pc[s] # "free" => base[s] = base[Root]
            /\ recurser[s] = "done" =>
                  (rx_dir[s] = <<>> /\ ChildTargets(s) = SentForRecursion(s)))
    /\ [][\A s \in Scans :
            (rx_dir'[s] # rx_dir[s] \/ scans'[s] # scans[s])
                => (RecursionSend(s) \/ RecursionSpawn(s))]_vars

\* a dispatcher has returned after it spawned two scans of one url
C16_Witness ==
    \E s \in Scans :
        /\ recurser[s] = "done"
        /\ Len(scans[s]) = 2
        /\ target[scans[s][1]] = target[scans[s][2]]
        /\ scans[s][1] # scans[s][2]

\* every child scan the dispatcher of s spawned has ended
ChildrenEnded(s) ==
    \A i \in 1..Len(scans[s]) : pc[scans[s][i]] \in {"S6", "Panicked"}

\* C17 as stated: the dispatcher task of a scan completes only when its
\* recursion channel is closed and every child scan it spawned has been
\* awaited to completion.
C17_Original ==
    \A s \in Scans :
        recurser[s] = "done" => (DirClosed(s) /\ ChildrenEnded(s))

\* C17, amended: the dispatcher task completes only when its recursion
\* channel is closed and drained, and hands the child scans to the
\* coordinator, which goes past S4 only when the dispatcher has completed
\* and every child scan has ended.
C17_DispatcherThenChildren ==
    \A s \in Scans :
        /\ recurser[s] = "done" => (DirClosed(s) /\ rx_dir[s] = <<>>)
        /\ pc[s] \in {"S5", "S5w", "S6"} =>
              (recurser[s] = "done" /\ ChildrenEnded(s))

\* the dispatcher has completed while a child scan it spawned is at work
\* and the coordinator waits at S4
C17_Witness ==
    \E s \in Scans :
        /\ recurser[s] = "done"
        /\ pc[s] = "S4"
        /\ \E i \in 1..Len(scans[s]) : pc[scans[s][i]] = "S1"

\* the workers of s that hold their clones of the two senders
HoldingClones(s) == {w \in wordlist : wst[s][w] = "run"}

\* the coordinator of s drops its sender of the recursion channel
DropsRecursionSender(s) == tx_dir[s] /\ ~tx_dir'[s]

\* C18: closure at S3 is deterministic: when the coordinator drops its
\* sender of the recursion channel every worker was awaited and none holds
\* a clone, so the channel is closed at that very step; from then on it
\* stays closed and the dispatcher can only drain it.
C18_ClosureAtS3 ==
    [][\A s \in Scans :
          /\ DropsRecursionSender(s) =>
                /\ \A w \in wordlist : wst[s][w] = "joined"
                /\ HoldingClones(s) = {}
                /\ ~DirClosed(s)
                /\ DirClosed(s)'
          /\ DirClosed(s) =>
                /\ DirClosed(s)'
                /\ \/ rx_dir'[s] = rx_dir[s]
                   \/ rx_dir[s] # <<>> /\ rx_dir'[s] = Tail(rx_dir[s])]_vars

\* the coordinator has dropped its sender with urls left on the channel,
\* which the dispatcher drains
C18_Witness ==
    \E s \in Scans :
        /\ pc[s] = "S4"
        /\ DirClosed(s)
        /\ recurser[s] = "recv"
        /\ rx_dir[s] # <<>>
        /\ handled[s] # {}

\* the urls of the responses the sink of s has made a record of, in the
\* order it received them, then those of the responses still on the channel
ReportOrder(s) ==
    [i \in 1..Len(output[s]) |-> output[s][i].url]
      \o [i \in 1..Len(wbuf[s]) |-> wbuf[s][i].url]
      \o [i \in 1..Len(rx_rpt[s]) |-> rx_rpt[s][i].url]

\* the urls the expander gave the worker of word w in scan s
ExpanderOrder(s, w) == create_urls(target[s], w, cfg.addslash, cfg.extensions)

\* C19: a worker issues the requests of its word one after the other in the
\* order of the expander, and the Report Sink of the scan receives the
\* responses of that worker in that order; nothing is said of the order
\* between two workers.
C19_PerWorkerOrder ==
    \A s \in Scans : \A w \in wordlist :
        /\ wst[s][w] = "run" =>
              \A h \in handled[s] : \A k \in 1..Len(ExpanderOrder(s, w)) :
                  h.req = ExpanderOrder(s, w)[k] => k < widx[s][w]
        /\ \A i, j \in 1..Len(ReportOrder(s)) :
              \A a, b \in 1..Len(ExpanderOrder(s, w)) :
                  (/\ i < j
                   /\ ReportOrder(s)[i] = ExpanderOrder(s, w)[a]
                   /\ ReportOrder(s)[j] = ExpanderOrder(s, w)[b]) => a < b

\* the sink has made the records of the two responses of one worker
C19_Witness ==
    \E s \in Scans : \E w \in wordlist :
        /\ Len(ExpanderOrder(s, w)) = 2
        /\ Len(output[s]) = 2
        /\ output[s][1].url = ExpanderOrder(s, w)[1]
        /\ output[s][2].url = ExpanderOrder(s, w)[2]

\* the test of the first call of scan_url, as the claim reads it
AtBaseDepth(s) == Depth(target[s]) - base[s] = 0

\* C20: the progress-bar join is started exactly once per scan tree:
\* depth(target_url) - base_depth = 0 holds for the root scan and for no
\* child scan, whatever directories are found, final urls of followed
\* redirects included.
C20_JoinOnce ==
    /\ AtBaseDepth(Root)
    /\ \A s \in Scans \ {Root} : pc[s] # "free" => ~AtBaseDepth(s)
    /\ pb_joins <= 1
    /\ pc[Root] # "S0" => pb_joins = 1

\* PROGRESS_BAR.join() was called a second time, by a child scan
C20_Witness ==
    /\ pb_joins = 2
    /\ \E s \in Scans \ {Root} : pc[s] \notin {"free", "S0"} /\ AtBaseDepth(s)

\* C20 where it holds: with redirects not followed every child scan is
\* below the base depth and the join is started once
C20_WithoutRedirects ==
    ~cfg.redirects => C20_JoinOnce

\* the worker of s evaluated reached_max_depth, max depth > 0, for the
\* response of h: recursion is enabled and the response is a directory
DepthEvaluated(h) ==
    /\ cfg.depth > 0
    /\ ~cfg.norecursion
    /\ ClassifiedDirectory(h.resp)

\* C21: the unsigned subtraction depth(url) - base_depth never underflows:
\* the url of every response for which reached_max_depth is evaluated with
\* max depth > 0, final urls of followed redirects included, and the target
\* of every scan_url that has computed depth(target_url) - base_depth, are
\* at least base_depth deep.
C21_NoUnderflow ==
    \A s \in Scans :
        /\ pc[s] \notin {"free", "S0"} => Depth(target[s]) >= base[s]
        /\ \A h \in handled[s] :
              DepthEvaluated(h) => Depth(h.resp.url) >= base[s]

\* a worker has panicked in reached_max_depth on a url above the base depth
C21_Witness ==
    \E s \in Scans : \E h \in handled[s] :
        /\ DepthEvaluated(h)
        /\ Depth(h.resp.url) < base[s]
        /\ h.dir = "panic"

\* C21 where it holds: with redirects not followed the url of every
\* response is below its scan's target and no subtraction underflows
C21_WithoutRedirects ==
    ~cfg.redirects => C21_NoUnderflow

\* a sender of the recursion channel of s is alive: the coordinator's or
\* the clone of a worker at work
RecursionSenderAlive(s) == tx_dir[s] \/ HoldingClones(s) # {}

\* the url of h was received by the dispatcher of s, which spawned a scan
\* of it
ReceivedAndScanned(s, h) ==
    \E i \in 1..Len(scans[s]) :
        /\ target[scans[s][i]] = h.resp.url
        /\ pc[scans[s][i]] # "free"

\* C22: no send on a recursion channel ever fails: the dispatcher's receiver
\* is open as long as the coordinator or a worker holds a sender, and a
\* dispatcher that has left its loop has received every url sent and
\* spawned a scan of it.
C22_RecursionSendsSucceed ==
    \A s \in Scans :
        /\ \A h \in handled[s] : h.dir # "failed"
        /\ RecursionSenderAlive(s) => recurser[s] = "recv"
        /\ recurser[s] = "done" =>
              /\ ~RecursionSenderAlive(s)
              /\ \A h \in handled[s] : h.dir = "sent" => ReceivedAndScanned(s, h)

\* the two urls sent by one worker were received after the worker had
\* ended, and the scans of both have returned
C22_Witness ==
    \E s \in Scans :
        /\ recurser[s] = "done"
        /\ Len(scans[s]) = 2
        /\ \E g, h \in handled[s] :
              /\ g.resp.url # h.resp.url
              /\ g.dir = "sent" /\ ReceivedAndScanned(s, g)
              /\ h.dir = "sent" /\ ReceivedAndScanned(s, h)
        /\ \A i \in 1..Len(scans[s]) : pc[scans[s][i]] = "S6"

====
